---- MODULE Spec2Model ----
(***************************************************************************)
(* Model of the filtering DNS forwarder (ads-blocker): the wire codec of   *)
(* src/src/parser/parser.cpp and the listener of                           *)
(* src/src/server/server.cpp.  Strings and datagrams are sequences of      *)
(* byte values (0..255); offsets are 0-based as in the source, so byte i   *)
(* of a buffer is element i+1 of the sequence.                             *)
(***************************************************************************)
EXTENDS Integers, Sequences, FiniteSets, TLC

VARIABLES
    socket_,      \* listener socket is valid (TRUE) or INVALID_SOCKET (FALSE)
    upstream_,    \* upstream socket is valid (TRUE) or INVALID_SOCKET (FALSE)
    blocklist_,   \* the denied set: a set of strings
    lastError,    \* the thread's Winsock error code, read by WSAGetLastError
    pc,           \* "constructed" | "running" | "returned"
    op,           \* the operation that ran last
    ret,          \* the DNS::Error that operation returned
    rx,           \* what the last handleQuery received on the listener socket
    calls,        \* the sendto calls of the last handleQuery, in order
    upRx,         \* the datagrams its recvfrom on the upstream socket returned
    upPending,    \* queries that reached the upstream resolver, not yet answered
    upQueue,      \* datagrams waiting in the upstream socket's receive buffer
    domain,       \* argument of the last direct application of search
    found,        \* its result
    fwdRet,       \* what forward returned to the last handleQuery, if called
    arg,          \* argument of the last direct application of the codec
    res           \* its result

vars == <<socket_, upstream_, blocklist_, lastError, pc, op, ret, rx, calls,
          upRx, upPending, upQueue, domain, found, fwdRet, arg, res>>

(***************************************************************************)
(* Integer helpers for the fixed-width arithmetic of the codec.            *)
(***************************************************************************)
Pow2(n) == IF n = 0 THEN 1 ELSE IF n = 1 THEN 2 ELSE IF n = 2 THEN 4
           ELSE IF n = 3 THEN 8 ELSE IF n = 4 THEN 16 ELSE IF n = 5 THEN 32
           ELSE IF n = 6 THEN 64 ELSE IF n = 7 THEN 128 ELSE IF n = 8 THEN 256
           ELSE IF n = 9 THEN 512 ELSE IF n = 10 THEN 1024
           ELSE IF n = 11 THEN 2048 ELSE IF n = 12 THEN 4096
           ELSE IF n = 13 THEN 8192 ELSE IF n = 14 THEN 16384
           ELSE IF n = 15 THEN 32768 ELSE 65536

\* (v >> n) & 1
Bit(v, n) == (v \div Pow2(n)) % 2

\* static_cast<uint16_t>(v)
U16(v) == v % 65536

\* the two bytes written by write16(v)
Write16(v) == << (v \div 256) % 256, v % 256 >>

\* the four bytes written by write32(v)
Write32(v) == << (v \div 16777216) % 256, (v \div 65536) % 256,
                 (v \div 256) % 256, v % 256 >>

\* data[i] of a receive buffer that was zero-initialised and holds the
\* datagram in its first Len(data) bytes
ByteAt(data, i) == IF i < Len(data) THEN data[i + 1] ELSE 0

\* (data[i] << 8) | data[i+1]
Read16(data, i) == ByteAt(data, i) * 256 + ByteAt(data, i + 1)

Read32(data, i) == ByteAt(data, i) * 16777216 + ByteAt(data, i + 1) * 65536
                   + ByteAt(data, i + 2) * 256 + ByteAt(data, i + 3)

\* std::vector<uint8_t>(n, 0x00)
Zeros(n) == [i \in 1..n |-> 0]

(***************************************************************************)
(* Program constants.                                                      *)
(***************************************************************************)
MAX_EDNS_PAYLOAD == 4096
MAX_LABEL_LEN == 63
MAX_NAME_LEN == 255
COMPRESSION_MASK == 192
MAX_HOPS_oneMore == 20 + 1
MAX_HOPS == 20
MAX_SECTION_COUNT == 500
MIN_DATAGRAM == 13
HEADER_LEN == 12
QTYPE_AAAA == 28
QTYPE_HTTPS == 65
FLAG_Z == 64

(***************************************************************************)
(* Denylist matcher: Listener::stripSchema, stripPathAndQuery, search.     *)
(***************************************************************************)
\* str.find("://"): the 0-based position of the first occurrence, or -1
FindSchema(str) ==
    LET hits == {i \in 0..(Len(str) - 3) :
                    str[i + 1] = 58 /\ str[i + 2] = 47 /\ str[i + 3] = 47}
    IN  IF hits = {} THEN -1 ELSE CHOOSE i \in hits : \A j \in hits : i <= j

stripSchema(str) ==
    LET p == FindSchema(str)
    IN  IF p # -1 THEN SubSeq(str, p + 4, Len(str)) ELSE str

\* str.find_first_of("/?:#")
FindBoundary(str) ==
    LET hits == {i \in 0..(Len(str) - 1) : str[i + 1] \in {47, 63, 58, 35}}
    IN  IF hits = {} THEN -1 ELSE CHOOSE i \in hits : \A j \in hits : i <= j

stripPathAndQuery(str) ==
    LET p == FindBoundary(str)
    IN  IF p # -1 THEN SubSeq(str, 1, p) ELSE str

\* std::tolower on one unsigned char (C locale)
ToLowerChar(c) == IF c >= 65 /\ c <= 90 THEN c + 32 ELSE c

ToLower(str) == [i \in 1..Len(str) |-> ToLowerChar(str[i])]

\* the normalisation as it would be without stripPathAndQuery
Normalize_schemaOnly(str) == ToLower(stripSchema(str))

\* the normalisation search applies before the lookup loop
Normalize(str) == ToLower(stripPathAndQuery(stripSchema(str)))

\* current.find('.')
FindDot(str) ==
    LET hits == {i \in 0..(Len(str) - 1) : str[i + 1] = 46}
    IN  IF hits = {} THEN -1 ELSE CHOOSE i \in hits : \A j \in hits : i <= j

\* search as it would be if the walk ignored label boundaries
SearchLoop_anySuffix(current, D) ==
    \E i \in 1..(Len(current) + 1) : SubSeq(current, i, Len(current)) \in D

RECURSIVE SearchLoop(_, _)
SearchLoop(current, D) ==
    IF current \in D THEN TRUE
    ELSE LET dot == FindDot(current)
         IN  IF dot = -1 THEN FALSE
             ELSE SearchLoop(SubSeq(current, dot + 2, Len(current)), D)

search(dom, D) == SearchLoop(Normalize(dom), D)

(***************************************************************************)
(* Name codec: Name::decode.                                               *)
(***************************************************************************)
\* What a decoder returns: besides the value and the cursor, hops is the
\* number of compression pointers followed and read is one more than the
\* highest index of data that was read (0 when no byte was read).
NameResult(e, n, o, h, r) ==
    [err |-> e, name |-> n, offset |-> o, hops |-> h, read |-> r]

Max(a, b) == IF a >= b THEN a ELSE b

\* The locals of Name::decode while its loop runs: pos, jumped, hops and
\* name, the caller's cursor offset (a reference in the source) and the
\* extent of the reads made; err is "MORE" until the function returns.
NameReturn(st, e, n, o, h, r) ==
    [st EXCEPT !.err = e, !.name = n, !.offset = o, !.hops = h, !.read = r]

\* the iteration as it would be if every pointer moved the caller's cursor
NameDecodeStep_everyPointer(data, st) ==
    LET len == Len(data)
        pos == st.pos
        labelLen == ByteAt(data, pos)
        rd1 == Max(st.read, pos + 1)
    IN  IF pos >= len
        THEN NameReturn(st, "PARSE_TRUNCATED", st.name, st.offset, st.hops,
                        st.read)
        ELSE IF labelLen = 0
             THEN NameReturn(st, "OK", st.name,
                             IF ~st.jumped THEN pos + 1 ELSE st.offset,
                             st.hops, rd1)
        ELSE IF labelLen >= COMPRESSION_MASK
             THEN IF pos + 1 >= len
                  THEN NameReturn(st, "PARSE_PTR_OOB", st.name, st.offset,
                                  st.hops, rd1)
                  ELSE LET ptr == (labelLen % 64) * 256 + ByteAt(data, pos + 1)
                           off2 == pos + 2
                           rd2 == Max(st.read, pos + 2)
                       IN  IF ptr >= len
                           THEN NameReturn(st, "PARSE_PTR_OOB", st.name,
                                           st.offset, st.hops, rd2)
                           ELSE IF st.hops + 1 > MAX_HOPS
                           THEN NameReturn(st, "PARSE_PTR_LOOP", st.name, off2,
                                           st.hops + 1, rd2)
                           ELSE [st EXCEPT !.pos = ptr, !.jumped = TRUE,
                                           !.hops = @ + 1, !.offset = off2,
                                           !.read = rd2]
        ELSE IF labelLen > MAX_LABEL_LEN
             THEN NameReturn(st, "PARSE_BAD_LABEL", st.name, st.offset,
                             st.hops, rd1)
        ELSE LET p1 == pos + 1
             IN  IF p1 + labelLen > len
                 THEN NameReturn(st, "PARSE_TRUNCATED", st.name, st.offset,
                                 st.hops, rd1)
                 ELSE LET name2 == (IF st.name # <<>> THEN st.name \o <<46>>
                                    ELSE st.name)
                                   \o SubSeq(data, p1 + 1, p1 + labelLen)
                          rd3 == Max(st.read, p1 + labelLen)
                      IN  IF Len(name2) > MAX_NAME_LEN
                          THEN NameReturn(st, "PARSE_NAME_TOO_LONG", name2,
                                          st.offset, st.hops, rd3)
                          ELSE [st EXCEPT !.pos = p1 + labelLen,
                                          !.name = name2, !.read = rd3]

\* One iteration of the while(true) loop of Name::decode: the locals after
\* it, or the value returned from within it.
NameDecodeStep(data, st) ==
    LET len == Len(data)
        pos == st.pos
        labelLen == ByteAt(data, pos)
        rd1 == Max(st.read, pos + 1)
    IN  IF pos >= len
        THEN NameReturn(st, "PARSE_TRUNCATED", st.name, st.offset, st.hops,
                        st.read)
        ELSE IF labelLen = 0
             THEN NameReturn(st, "OK", st.name,
                             IF ~st.jumped THEN pos + 1 ELSE st.offset,
                             st.hops, rd1)
        ELSE IF labelLen >= COMPRESSION_MASK
             THEN IF pos + 1 >= len
                  THEN NameReturn(st, "PARSE_PTR_OOB", st.name, st.offset,
                                  st.hops, rd1)
                  ELSE LET ptr == (labelLen % 64) * 256 + ByteAt(data, pos + 1)
                           off2 == IF ~st.jumped THEN pos + 2 ELSE st.offset
                           rd2 == Max(st.read, pos + 2)
                       IN  IF ptr >= len
                           THEN NameReturn(st, "PARSE_PTR_OOB", st.name,
                                           st.offset, st.hops, rd2)
                           ELSE IF st.hops + 1 > MAX_HOPS
                           THEN NameReturn(st, "PARSE_PTR_LOOP", st.name, off2,
                                           st.hops + 1, rd2)
                           ELSE [st EXCEPT !.pos = ptr, !.jumped = TRUE,
                                           !.hops = @ + 1, !.offset = off2,
                                           !.read = rd2]
        ELSE IF labelLen > MAX_LABEL_LEN
             THEN NameReturn(st, "PARSE_BAD_LABEL", st.name, st.offset,
                             st.hops, rd1)
        ELSE LET p1 == pos + 1
             IN  IF p1 + labelLen > len
                 THEN NameReturn(st, "PARSE_TRUNCATED", st.name, st.offset,
                                 st.hops, rd1)
                 ELSE LET name2 == (IF st.name # <<>> THEN st.name \o <<46>>
                                    ELSE st.name)
                                   \o SubSeq(data, p1 + 1, p1 + labelLen)
                          rd3 == Max(st.read, p1 + labelLen)
                      IN  IF Len(name2) > MAX_NAME_LEN
                          THEN NameReturn(st, "PARSE_NAME_TOO_LONG", name2,
                                          st.offset, st.hops, rd3)
                          ELSE [st EXCEPT !.pos = p1 + labelLen,
                                          !.name = name2, !.read = rd3]

\* while(true): iterate until the function returns
RECURSIVE NameDecodeLoop(_, _)
NameDecodeLoop(data, st) ==
    IF st.err # "MORE" THEN st ELSE NameDecodeLoop(data, NameDecodeStep(data, st))

\* the value returned, without the locals
NameReturned(st) == NameResult(st.err, st.name, st.offset, st.hops, st.read)

NameDecode(data, offset) ==
    NameReturned(NameDecodeLoop(data,
                     [err |-> "MORE", pos |-> offset, jumped |-> FALSE,
                      hops |-> 0, name |-> <<>>, offset |-> offset,
                      read |-> 0]))

(***************************************************************************)
(* Question and resource-record decoding.                                  *)
(***************************************************************************)
NoQuestion == [name |-> <<>>, qtype |-> 0, qclass |-> 0]

NoRecord == [name |-> <<>>, type |-> 0, rclass |-> 0, ttl |-> 0,
             rdlength |-> 0, rdata |-> <<>>]

\* Question::decode after its call of Name::decode, whose result is n
QuestionFields(data, n) ==
    IF n.err # "OK"
    THEN [err |-> n.err, item |-> NoQuestion, offset |-> n.offset,
          read |-> n.read]
    ELSE IF n.offset + 4 > Len(data)
    THEN [err |-> "PARSE_TRUNCATED", item |-> NoQuestion, offset |-> n.offset,
          read |-> n.read]
    ELSE [err |-> "OK",
          item |-> [name |-> n.name,
                    qtype |-> Read16(data, n.offset),
                    qclass |-> Read16(data, n.offset + 2)],
          offset |-> n.offset + 4,
          read |-> Max(n.read, n.offset + 4)]

QuestionDecode(data, offset) == QuestionFields(data, NameDecode(data, offset))

\* ResourceRecord::decode after its call of Name::decode, whose result is
\* n.  The RDLENGTH test is made before the cursor moves past the ten fixed
\* bytes, as in the source; RDATA is then copied from the receive buffer.
RecordFields(data, n) ==
    LET o == n.offset
        rdlength == Read16(data, o + 8)
    IN  IF n.err # "OK"
        THEN [err |-> n.err, item |-> NoRecord, offset |-> o, read |-> n.read]
        ELSE IF o + 10 > Len(data)
        THEN [err |-> "PARSE_TRUNCATED", item |-> NoRecord, offset |-> o,
              read |-> n.read]
        ELSE IF o + rdlength > Len(data)
        THEN [err |-> "PARSE_TRUNCATED", item |-> NoRecord, offset |-> o,
              read |-> Max(n.read, o + 10)]
        ELSE [err |-> "OK",
              item |-> [name |-> n.name,
                        type |-> Read16(data, o),
                        rclass |-> Read16(data, o + 2),
                        ttl |-> Read32(data, o + 4),
                        rdlength |-> rdlength,
                        rdata |-> [i \in 1..rdlength |->
                                      ByteAt(data, o + 10 + i - 1)]],
              offset |-> o + 10 + rdlength,
              read |-> Max(n.read, o + 10 + rdlength)]

ResourceRecordDecode(data, offset) == RecordFields(data, NameDecode(data, offset))

(***************************************************************************)
(* Header codec: Header::getRawFlags, Header::encode, Header::decode.      *)
(***************************************************************************)
B2N(b) == IF b THEN 1 ELSE 0

NoHeader == [id |-> 0, qr |-> FALSE, opcode |-> 0, aa |-> FALSE, tc |-> FALSE,
             rd |-> FALSE, ra |-> FALSE, ad |-> FALSE, cd |-> FALSE,
             rcode |-> 0, qdcount |-> 0, ancount |-> 0, nscount |-> 0,
             arcount |-> 0]

getRawFlags_noAd(h) ==
    B2N(h.qr) * 32768 + (h.opcode % 16) * 2048 + B2N(h.aa) * 1024
    + B2N(h.tc) * 512 + B2N(h.rd) * 256 + B2N(h.ra) * 128
    + B2N(h.cd) * 16 + (h.rcode % 16)

getRawFlags(h) ==
    B2N(h.qr) * 32768 + (h.opcode % 16) * 2048 + B2N(h.aa) * 1024
    + B2N(h.tc) * 512 + B2N(h.rd) * 256 + B2N(h.ra) * 128
    + B2N(h.ad) * 32 + B2N(h.cd) * 16 + (h.rcode % 16)

\* Header::encode as it would be if the rcode were written unmasked
HeaderEncode_rcodeUnmasked(h) ==
    Write16(h.id) \o Write16(getRawFlags(h) + (h.rcode \div 16) * 16)
    \o Write16(h.qdcount)
    \o Write16(h.ancount) \o Write16(h.nscount) \o Write16(h.arcount)

HeaderEncode(h) ==
    Write16(h.id) \o Write16(getRawFlags(h)) \o Write16(h.qdcount)
    \o Write16(h.ancount) \o Write16(h.nscount) \o Write16(h.arcount)

ValidOpcodes == {0, 1, 2, 4, 5, 6}

\* Header::decode as it would be without the test qdcount > 1
HeaderDecode_manyQuestions(data) ==
    LET flags == Read16(data, 2)
        qr == Bit(flags, 15) = 1
        opcode == (flags \div 2048) % 16
        rcode == flags % 16
        ra == Bit(flags, 7) = 1
        aa == Bit(flags, 10) = 1
        qdcount == Read16(data, 4)
        ancount == Read16(data, 6)
        nscount == Read16(data, 8)
        arcount == Read16(data, 10)
        fail(e, r) == [err |-> e, header |-> NoHeader, read |-> r]
    IN  IF Len(data) < HEADER_LEN THEN fail("PARSE_TOO_SHORT", 0)
        ELSE IF (flags \div FLAG_Z) % 2 = 1 THEN fail("PARSE_TRUNCATED", 4)
        ELSE IF opcode \notin ValidOpcodes THEN fail("PARSE_BAD_OPCODE", 4)
        ELSE IF ~qr /\ (ra \/ aa) THEN fail("PARSE_TRUNCATED", 4)
        ELSE IF ~qr /\ qdcount = 0 THEN fail("PARSE_BAD_QDCOUNT", HEADER_LEN)
        ELSE IF ancount > MAX_SECTION_COUNT \/ nscount > MAX_SECTION_COUNT
                \/ arcount > MAX_SECTION_COUNT
        THEN fail("PARSE_TRUNCATED", HEADER_LEN)
        ELSE [err |-> "OK", read |-> HEADER_LEN,
              header |-> [id |-> Read16(data, 0), qr |-> qr,
                          opcode |-> opcode, aa |-> aa,
                          tc |-> Bit(flags, 9) = 1, rd |-> Bit(flags, 8) = 1,
                          ra |-> ra, ad |-> Bit(flags, 5) = 1,
                          cd |-> Bit(flags, 4) = 1, rcode |-> rcode,
                          qdcount |-> qdcount, ancount |-> ancount,
                          nscount |-> nscount, arcount |-> arcount]]

HeaderDecode(data) ==
    LET flags == Read16(data, 2)
        qr == Bit(flags, 15) = 1
        opcode == (flags \div 2048) % 16
        rcode == flags % 16
        ra == Bit(flags, 7) = 1
        aa == Bit(flags, 10) = 1
        qdcount == Read16(data, 4)
        ancount == Read16(data, 6)
        nscount == Read16(data, 8)
        arcount == Read16(data, 10)
        fail(e, r) == [err |-> e, header |-> NoHeader, read |-> r]
    IN  IF Len(data) < HEADER_LEN THEN fail("PARSE_TOO_SHORT", 0)
        ELSE IF (flags \div FLAG_Z) % 2 = 1 THEN fail("PARSE_TRUNCATED", 4)
        ELSE IF opcode \notin ValidOpcodes THEN fail("PARSE_BAD_OPCODE", 4)
        ELSE IF ~qr /\ (ra \/ aa) THEN fail("PARSE_TRUNCATED", 4)
        ELSE IF ~qr /\ qdcount = 0 THEN fail("PARSE_BAD_QDCOUNT", HEADER_LEN)
        ELSE IF qdcount > 1 THEN fail("PARSE_BAD_QDCOUNT", HEADER_LEN)
        ELSE IF ancount > MAX_SECTION_COUNT \/ nscount > MAX_SECTION_COUNT
                \/ arcount > MAX_SECTION_COUNT
        THEN fail("PARSE_TRUNCATED", HEADER_LEN)
        ELSE [err |-> "OK", read |-> HEADER_LEN,
              header |-> [id |-> Read16(data, 0), qr |-> qr,
                          opcode |-> opcode, aa |-> aa,
                          tc |-> Bit(flags, 9) = 1, rd |-> Bit(flags, 8) = 1,
                          ra |-> ra, ad |-> Bit(flags, 5) = 1,
                          cd |-> Bit(flags, 4) = 1, rcode |-> rcode,
                          qdcount |-> qdcount, ancount |-> ancount,
                          nscount |-> nscount, arcount |-> arcount]]

(***************************************************************************)
(* Message codec: MessageParser::parse.                                    *)
(***************************************************************************)
NoMessage == [header |-> NoHeader, questions |-> <<>>, answers |-> <<>>,
              authority |-> <<>>, additional |-> <<>>]

\* A section being decoded: the items read so far, the cursor and the
\* extent of the reads made so far
Section(offset, read) ==
    [err |-> "OK", items |-> <<>>, offset |-> offset, read |-> read]

\* the end of one iteration of a section loop: r is what decode returned
SectionPut(s, r) ==
    IF r.err # "OK"
    THEN [err |-> r.err, items |-> s.items, offset |-> r.offset,
          read |-> Max(s.read, r.read)]
    ELSE [err |-> "OK", items |-> Append(s.items, r.item), offset |-> r.offset,
          read |-> Max(s.read, r.read)]

\* for (i = 0; i < n; i++) Question::decode(data, len, offset)
RECURSIVE DecodeQuestions(_, _, _)
DecodeQuestions(data, n, s) ==
    IF n = 0 \/ s.err # "OK" THEN s
    ELSE DecodeQuestions(data, n - 1,
                         SectionPut(s, QuestionDecode(data, s.offset)))

\* for (i = 0; i < n; i++) ResourceRecord::decode(data, len, offset)
RECURSIVE DecodeRecords(_, _, _)
DecodeRecords(data, n, s) ==
    IF n = 0 \/ s.err # "OK" THEN s
    ELSE DecodeRecords(data, n - 1,
                       SectionPut(s, ResourceRecordDecode(data, s.offset)))

ParseFailed(e, read) == [err |-> e, msg |-> NoMessage, read |-> read]

\* the end of parse: ar is the result of the additional-section loop
parseDone(h, qs, an, ns, ar) ==
    IF ar.err # "OK" THEN ParseFailed(ar.err, ar.read)
    ELSE [err |-> "OK",
          msg |-> [header |-> h, questions |-> qs, answers |-> an,
                   authority |-> ns, additional |-> ar.items],
          read |-> ar.read]

\* parse from the additional-section loop on: ns is the authority loop's result
parseAdditional(data, h, qs, an, ns) ==
    IF ns.err # "OK" THEN ParseFailed(ns.err, ns.read)
    ELSE parseDone(h, qs, an, ns.items,
                   DecodeRecords(data, h.arcount, Section(ns.offset, ns.read)))

\* parse from the authority-section loop on: an is the answer loop's result
parseAuthority(data, h, qs, an) ==
    IF an.err # "OK" THEN ParseFailed(an.err, an.read)
    ELSE parseAdditional(data, h, qs, an.items,
                         DecodeRecords(data, h.nscount,
                                       Section(an.offset, an.read)))

\* parse from the answer-section loop on: qs is the question loop's result
parseAnswers(data, h, qs) ==
    IF qs.err # "OK" THEN ParseFailed(qs.err, qs.read)
    ELSE parseAuthority(data, h, qs.items,
                        DecodeRecords(data, h.ancount,
                                      Section(qs.offset, qs.read)))

\* parse from the question loop on: hdr is what Header::decode returned
parseQuestions(data, hdr) ==
    IF hdr.err # "OK" THEN ParseFailed(hdr.err, hdr.read)
    ELSE parseAnswers(data, hdr.header,
                      DecodeQuestions(data, hdr.header.qdcount,
                                      Section(HEADER_LEN, hdr.read)))

parse(data) ==
    IF Len(data) < HEADER_LEN THEN ParseFailed("PARSE_TOO_SHORT", 0)
    ELSE IF Len(data) > MAX_EDNS_PAYLOAD THEN ParseFailed("PARSE_TRUNCATED", 0)
    ELSE parseQuestions(data, HeaderDecode(data))

(***************************************************************************)
(* Name codec: Name::encode with the compression table.  The table maps a  *)
(* name suffix to the datagram offset at which it was written.             *)
(***************************************************************************)
EmptyTable == [x \in {} |-> 0]

TablePut(table, key, val) ==
    [x \in (DOMAIN table) \cup {key} |-> IF x = key THEN val ELSE table[x]]

\* name.find('.', pos): 0-based position of the first '.' at or after pos
FindDotFrom(name, pos) ==
    LET hits == {i \in pos..(Len(name) - 1) : name[i + 1] = 46}
    IN  IF hits = {} THEN -1 ELSE CHOOSE i \in hits : \A j \in hits : i <= j

RECURSIVE NameEncodeLoop(_, _, _, _, _)
NameEncodeLoop(name, pos, buf, table, baseOffset) ==
    LET remaining == SubSeq(name, pos + 1, Len(name))
        table2 == TablePut(table, remaining, U16(baseOffset + Len(buf)))
        dot == FindDotFrom(name, pos)
        labelEnd == IF dot = -1 THEN Len(name) ELSE dot
        labelLen == labelEnd - pos
    IN  IF remaining \in DOMAIN table
        THEN LET ptr == table[remaining]
             IN  [err |-> "OK",
                  bytes |-> buf \o << COMPRESSION_MASK + ((ptr \div 256) % 64),
                                      ptr % 256 >>,
                  table |-> table]
        ELSE IF pos >= Len(name)
        THEN IF Len(buf) + 1 > MAX_NAME_LEN
             THEN [err |-> "ENCODE_NAME_TOO_LONG", bytes |-> <<>>,
                   table |-> table2]
             ELSE [err |-> "OK", bytes |-> Append(buf, 0), table |-> table2]
        ELSE IF labelLen = 0 \/ labelLen > MAX_LABEL_LEN
        THEN [err |-> "ENCODE_LABEL_TOO_LONG", bytes |-> <<>>,
              table |-> table2]
        ELSE NameEncodeLoop(name,
                            IF dot = -1 THEN Len(name) ELSE dot + 1,
                            buf \o <<labelLen>> \o SubSeq(name, pos + 1, labelEnd),
                            table2, baseOffset)

\* Name::encode as it would be if offsets were counted from the start of
\* the name being encoded
NameEncode_nameRelative(name, table, baseOffset) ==
    NameEncodeLoop(name, 0, <<>>, table, 0)

NameEncode(name, table, baseOffset) ==
    NameEncodeLoop(name, 0, <<>>, table, baseOffset)

\* the fixed fields written after the name; n is what Name::encode returned
FieldsPut(n, fields) ==
    IF n.err # "OK" THEN n
    ELSE [err |-> "OK", bytes |-> n.bytes \o fields, table |-> n.table]

QuestionEncode(q, table, baseOffset) ==
    FieldsPut(NameEncode(q.name, table, baseOffset),
              Write16(q.qtype) \o Write16(q.qclass))

\* RDLENGTH is written from rdata_.size(), not from the stored rdlength_
ResourceRecordEncode(rr, table, baseOffset) ==
    FieldsPut(NameEncode(rr.name, table, baseOffset),
              Write16(rr.type) \o Write16(rr.rclass) \o Write32(rr.ttl)
              \o Write16(U16(Len(rr.rdata))) \o rr.rdata)

(***************************************************************************)
(* Message codec: MessageParser::encode.                                   *)
(***************************************************************************)
\* the end of one iteration of a loop of encode: r is what the item's
\* encode returned, its bytes are inserted at the end of the buffer
BufferPut(s, r) ==
    IF r.err # "OK" THEN r
    ELSE [err |-> "OK", bytes |-> s.bytes \o r.bytes, table |-> r.table]

\* one of the four for-loops of encode: isQ selects Question::encode; s
\* holds the buffer and the compression table
RECURSIVE EncodeSection(_, _, _)
EncodeSection(items, isQ, s) ==
    IF items = <<>> \/ s.err # "OK" THEN s
    ELSE EncodeSection(Tail(items), isQ,
             BufferPut(s, IF isQ
                          THEN QuestionEncode(Head(items), s.table,
                                              U16(Len(s.bytes)))
                          ELSE ResourceRecordEncode(Head(items), s.table,
                                                    U16(Len(s.bytes)))))

\* the end of encode: s is the result of the four loops
EncodeChecked(s) ==
    IF s.err # "OK" THEN [err |-> s.err, bytes |-> <<>>]
    ELSE IF Len(s.bytes) > MAX_EDNS_PAYLOAD
    THEN [err |-> "ENCODE_OVERFLOW", bytes |-> <<>>]
    ELSE [err |-> "OK", bytes |-> s.bytes]

\* encode as it would be if the counts stored in the header were written
encode_storedCounts(msg) ==
    LET hdr == msg.header
        s0 == [err |-> "OK", bytes |-> HeaderEncode(hdr), table |-> EmptyTable]
    IN  EncodeChecked(
            EncodeSection(msg.additional, FALSE,
                EncodeSection(msg.authority, FALSE,
                    EncodeSection(msg.answers, FALSE,
                        EncodeSection(msg.questions, TRUE, s0)))))

encode(msg) ==
    LET hdr == [msg.header EXCEPT
                    !.qdcount = U16(Len(msg.questions)),
                    !.ancount = U16(Len(msg.answers)),
                    !.nscount = U16(Len(msg.authority)),
                    !.arcount = U16(Len(msg.additional))]
        s0 == [err |-> "OK", bytes |-> HeaderEncode(hdr), table |-> EmptyTable]
    IN  EncodeChecked(
            EncodeSection(msg.additional, FALSE,
                EncodeSection(msg.authority, FALSE,
                    EncodeSection(msg.answers, FALSE,
                        EncodeSection(msg.questions, TRUE, s0)))))

(***************************************************************************)
(* Bounds of the model.                                                    *)
(***************************************************************************)
\* queries the upstream resolver holds unanswered; further ones are lost
MaxPending == 1
\* datagrams the upstream socket's receive buffer holds; further ones are lost
MaxQueue == 1
\* files named in one call of loadBlocklist
MaxFiles == 1

(***************************************************************************)
(* The environment: clients, blocklist files, the upstream resolver.       *)
(***************************************************************************)
Clients == {"10.0.0.1", "10.0.0.2"}

UpstreamAddr == "upstream:53"

\* "ad.io", "s.ad.io", "badad.io", "ok.io", "a." and "" as byte strings
ad_io == <<97, 100, 46, 105, 111>>
s_ad_io == <<115, 46, 97, 100, 46, 105, 111>>
badad_io == <<98, 97, 100, 97, 100, 46, 105, 111>>
ok_io == <<111, 107, 46, 105, 111>>
a_dot == <<97, 46>>
empty == <<>>

\* The lines of the blocklist files on disk (std::getline strips the '\n');
\* "missing" cannot be opened.  "hosts" holds the line "Ad.io", "blank"
\* holds "Ad.io" and an empty line.
FileNames == {"hosts", "blank", "missing"}

FileLines(f) ==
    IF f = "hosts" THEN << <<65, 100, 46, 105, 111>> >>
    ELSE IF f = "blank" THEN << <<65, 100, 46, 105, 111>>, <<>> >>
    ELSE <<>>

FileOpens(f) == f # "missing"

\* the transaction id of a datagram
IdOf(data) == Read16(data, 0)

\* What the resolver answers to a query with transaction id i: the id is
\* echoed; the reply is NXDOMAIN (flags 0x8183) without sections.
UpstreamReplies(i) ==
    { Write16(i) \o <<129, 131, 0, 0, 0, 0, 0, 0, 0, 0>> }

(***************************************************************************)
(* The datagrams a client may send to the listener.                        *)
(***************************************************************************)
ID1 == 18 * 256 + 52
ID2 == 171 * 256 + 205

\* wire forms of the names "ok.io", "badad.io", "s.ad.io", "AD.IO", the
\* one-label name "a." and the root name
wOk == <<2, 111, 107, 2, 105, 111, 0>>
wBad == <<5, 98, 97, 100, 97, 100, 2, 105, 111, 0>>
wSub == <<1, 115, 2, 97, 100, 2, 105, 111, 0>>
wUpper == <<2, 65, 68, 2, 73, 79, 0>>
wDot == <<2, 97, 46, 0>>
wRoot == <<0>>
\* one label whose only byte is '.'
wLoneDot == <<1, 46, 0>>

\* an EDNS OPT pseudo-record, an A record and an NS record owned by the
\* question name (compression pointer to offset 12), and an OPT record whose
\* RDLENGTH (8) runs past the end of the datagram
OptRR == <<0, 0, 41, 16, 0, 0, 0, 0, 0, 0, 0>>
AnsRR == <<192, 12, 0, 1, 0, 1, 0, 0, 0, 60, 0, 4, 1, 2, 3, 4>>
NsRR == <<192, 12, 0, 2, 0, 1, 0, 0, 0, 60, 0, 0>>
ShortRR == <<0, 0, 41, 16, 0, 0, 0, 0, 0, 0, 8>>

Hdr(id, flags, qd, an, ns, ar) ==
    Write16(id) \o Write16(flags) \o Write16(qd) \o Write16(an)
    \o Write16(ns) \o Write16(ar)

\* a datagram with one question of class IN, followed by rest
Query(id, flags, an, ns, ar, wname, qtype, rest) ==
    Hdr(id, flags, 1, an, ns, ar) \o wname \o Write16(qtype) \o <<0, 1>>
    \o rest

ValidDatagrams ==
    { Query(ID1, 256, 0, 0, 0, wOk, 1, <<>>),
      Query(ID2, 256, 0, 0, 0, wOk, 1, <<>>),
      Query(ID1, 256, 0, 0, 0, wBad, 1, <<>>),
      Query(ID1, 256, 0, 0, 0, wSub, 1, <<>>),
      Query(ID2, 0, 0, 0, 0, wSub, QTYPE_AAAA, <<>>),
      Query(ID1, 256, 0, 0, 0, wSub, QTYPE_HTTPS, <<>>),
      Query(ID1, 259, 0, 0, 0, wSub, 16, <<>>),
      Query(ID1, 256, 0, 0, 1, wSub, 1, OptRR),
      Query(ID1, 256, 1, 0, 0, wSub, QTYPE_HTTPS, AnsRR),
      Query(ID1, 256, 0, 1, 0, wSub, 1, NsRR),
      Query(ID1, 34176, 0, 0, 0, wSub, 1, <<>>),
      Query(ID1, 256, 0, 0, 0, wUpper, 1, <<>>),
      Query(ID1, 256, 0, 0, 0, wDot, 1, <<>>),
      Query(ID1, 256, 0, 0, 0, wRoot, 2, <<>>),
      Query(ID1, 256, 0, 0, 0, wLoneDot, 1, <<>>),
      Query(ID1, 256, 0, 0, 1, wSub, 1, ShortRR),
      Hdr(ID1, 33152, 0, 0, 0, 0) \o <<0>> }

InvalidDatagrams ==
    { <<18, 52, 1, 0, 0, 1, 0, 0>>,
      Hdr(ID1, 256, 1, 0, 0, 0),
      Query(ID1, 320, 0, 0, 0, wSub, 1, <<>>),
      Query(ID1, 6144, 0, 0, 0, wSub, 1, <<>>),
      Query(ID1, 384, 0, 0, 0, wSub, 1, <<>>),
      Hdr(ID1, 256, 0, 0, 0, 0) \o wSub \o <<0, 1, 0, 1>>,
      Hdr(ID1, 256, 2, 0, 0, 0) \o wSub \o <<0, 1, 0, 1>>
          \o wOk \o <<0, 1, 0, 1>>,
      Hdr(ID1, 33152, 2, 0, 0, 0) \o wSub \o <<0, 1, 0, 1>>
          \o wOk \o <<0, 1, 0, 1>>,
      Query(ID1, 256, 501, 0, 0, wSub, 1, <<>>),
      Hdr(ID1, 256, 1, 0, 0, 0) \o <<3, 97>>,
      Hdr(ID1, 256, 1, 0, 0, 0) \o <<64, 0>>,
      Hdr(ID1, 256, 1, 0, 0, 0) \o <<192, 12, 0, 1, 0, 1>>,
      Hdr(ID1, 256, 1, 0, 0, 0) \o <<192, 99, 0, 1, 0, 1>>,
      Hdr(ID1, 256, 1, 0, 0, 0) \o wOk \o <<0, 1>>,
      Query(ID1, 256, 1, 0, 0, wSub, 1, <<>>) }

Datagrams == ValidDatagrams \cup InvalidDatagrams

\* parser.parse(buf, received), tabulated over the datagrams
ParseOf == [d \in Datagrams |-> parse(d)]

(***************************************************************************)
(* Listener::forward.  A run of forward (and of handleQuery) is described  *)
(* by a record e of what it has done so far: the Winsock error code, the   *)
(* upstream resolver's and upstream socket's contents, the sendto calls    *)
(* made, the datagrams received from the upstream socket, the value        *)
(* returned and the value the last call of forward returned.  Each         *)
(* operator gives the set of records the environment's answers allow.      *)
(***************************************************************************)
\* one call of sendto: ok is FALSE when it returned SOCKET_ERROR
Call(sock, to, bytes, ok) == [sock |-> sock, to |-> to, bytes |-> bytes, ok |-> ok]

\* the return of forward as it would be without the test for a reset
RelayResult_resetFails(err, fwdOk) ==
    IF ~fwdOk THEN "SERVER_SEND_FAIL" ELSE "OK"

\* the return of forward after the relay: err is what WSAGetLastError gives
\* after the sendto, fwdOk whether the sendto succeeded
RelayResult(err, fwdOk) ==
    IF err = "WSAECONNRESET" THEN "OK"
    ELSE IF ~fwdOk THEN "SERVER_SEND_FAIL" ELSE "OK"

\* the relay as it would be if it sent one byte less than was received
RelayOutcomes_short(e, response, client) ==
    { [e EXCEPT !.calls = Append(@, Call("listener", client,
                                         SubSeq(response, 1, Len(response) - 1),
                                         TRUE)),
                !.ret = "OK"] }

\* sendto(socket_, response, respLen, ..., client) and the return of forward
RelayOutcomes(e, response, client) ==
    LET sent(ok) == Append(e.calls, Call("listener", client, response, ok))
    IN  { [e EXCEPT !.calls = sent(TRUE),
                    !.ret = RelayResult(e.lastError, TRUE)] }
        \cup
        { [e EXCEPT !.calls = sent(FALSE), !.lastError = code,
                    !.ret = RelayResult(code, FALSE)]
            : code \in {"WSAECONNRESET", "WSAOTHER"} }

\* the receive as it would be if a timeout were reported as unreachable
ReceiveOutcomes_noTimeout(e, client) ==
    LET failed(code) ==
            [e EXCEPT !.lastError = code,
                      !.ret = "UPSTREAM_UNREACHABLE"]
        queued ==
            IF e.upQueue # <<>>
            THEN RelayOutcomes([e EXCEPT !.upQueue = Tail(@),
                                         !.upRx = Append(@, Head(e.upQueue))],
                               Head(e.upQueue), client)
            ELSE {}
        intime ==
            IF e.upQueue = <<>>
            THEN UNION { UNION { RelayOutcomes([e EXCEPT !.upPending = @ \ {i},
                                                         !.upRx = Append(@, r)],
                                               r, client)
                                    : r \in UpstreamReplies(i) }
                            : i \in e.upPending }
            ELSE {}
        timeout == IF e.upQueue = <<>> THEN {failed("WSAETIMEDOUT")} ELSE {}
    IN  queued \cup intime \cup timeout \cup {failed("WSAECONNRESET")}

\* recvfrom(upstream_, response, ...) and what follows it
ReceiveOutcomes(e, client) ==
    LET failed(code) ==
            [e EXCEPT !.lastError = code,
                      !.ret = IF code = "WSAETIMEDOUT" THEN "UPSTREAM_TIMEOUT"
                              ELSE "UPSTREAM_UNREACHABLE"]
        queued ==
            IF e.upQueue # <<>>
            THEN RelayOutcomes([e EXCEPT !.upQueue = Tail(@),
                                         !.upRx = Append(@, Head(e.upQueue))],
                               Head(e.upQueue), client)
            ELSE {}
        intime ==
            IF e.upQueue = <<>>
            THEN UNION { UNION { RelayOutcomes([e EXCEPT !.upPending = @ \ {i},
                                                         !.upRx = Append(@, r)],
                                               r, client)
                                    : r \in UpstreamReplies(i) }
                            : i \in e.upPending }
            ELSE {}
        timeout == IF e.upQueue = <<>> THEN {failed("WSAETIMEDOUT")} ELSE {}
    IN  queued \cup intime \cup timeout \cup {failed("WSAECONNRESET")}

\* forward(data, len, client); the query sent reaches the resolver or is lost
ForwardOutcomes(e, data, client, upstreamValid) ==
    LET sendFailed ==
            [e EXCEPT !.lastError = "WSAOTHER",
                      !.calls = Append(@, Call("upstream", UpstreamAddr, data, FALSE)),
                      !.ret = "UPSTREAM_UNREACHABLE"]
        sent == [e EXCEPT !.calls = Append(@, Call("upstream", UpstreamAddr, data, TRUE))]
        reached ==
            IF Cardinality(e.upPending) < MaxPending
            THEN {[sent EXCEPT !.upPending = @ \cup {IdOf(data)}]}
            ELSE {}
    IN  { [x EXCEPT !.fwd = x.ret] :
            x \in IF ~upstreamValid
                  THEN {[e EXCEPT !.ret = "UPSTREAM_UNREACHABLE"]}
                  ELSE {sendFailed}
                       \cup UNION {ReceiveOutcomes(x, client)
                                      : x \in {sent} \cup reached} }

(***************************************************************************)
(* Listener::handleQuery.                                                  *)
(***************************************************************************)
\* the blocked response as it would be if every answer got four zero bytes
BlockedMessage_rdlen(msg, q) ==
    LET h1 == [msg.header EXCEPT !.qr = TRUE, !.ra = TRUE,
                                 !.nscount = 0, !.arcount = 0]
        rr == [name |-> q.name, type |-> q.qtype, rclass |-> q.qclass,
               ttl |-> 0, rdlength |-> 4, rdata |-> Zeros(4)]
    IN  IF q.qtype = QTYPE_HTTPS
        THEN [msg EXCEPT !.header = [h1 EXCEPT !.ancount = 0]]
        ELSE [msg EXCEPT !.header = [h1 EXCEPT !.ancount = 1],
                         !.answers = <<rr>>]

\* step 5 of handleQuery: the parsed message turned into the blocked response
BlockedMessage(msg, q) ==
    LET h1 == [msg.header EXCEPT !.qr = TRUE, !.ra = TRUE,
                                 !.nscount = 0, !.arcount = 0]
        rdlen == IF q.qtype = QTYPE_AAAA THEN 16 ELSE 4
        rr == [name |-> q.name, type |-> q.qtype, rclass |-> q.qclass,
               ttl |-> 0, rdlength |-> rdlen, rdata |-> Zeros(rdlen)]
    IN  IF q.qtype = QTYPE_HTTPS
        THEN [msg EXCEPT !.header = [h1 EXCEPT !.ancount = 0]]
        ELSE [msg EXCEPT !.header = [h1 EXCEPT !.ancount = 1],
                         !.answers = <<rr>>]

\* step 6 after the call of encode, whose result is encoded: the blocked
\* response is sent to the client
SendBlocked(e, encoded, client) ==
    LET sent(ok) == Append(e.calls, Call("listener", client, encoded.bytes, ok))
    IN  IF encoded.err # "OK" THEN {[e EXCEPT !.ret = encoded.err]}
        ELSE IF Len(encoded.bytes) > MAX_EDNS_PAYLOAD
        THEN {[e EXCEPT !.ret = "SERVER_SEND_FAIL"]}
        ELSE { [e EXCEPT !.calls = sent(TRUE), !.ret = "OK"] }
             \cup
             { [e EXCEPT !.calls = sent(FALSE), !.lastError = code,
                         !.ret = "SERVER_SEND_FAIL"]
                 : code \in {"WSAECONNRESET", "WSAOTHER"} }

\* steps 5 and 6
BlockedOutcomes(e, msg, q, client) ==
    SendBlocked(e, encode(BlockedMessage(msg, q)), client)

\* the loop as it would be without the return after the blocked response
RECURSIVE QuestionLoop_noStop(_, _, _, _, _, _, _)
QuestionLoop_noStop(e, qs, msg, data, client, D, upstreamValid) ==
    IF qs = <<>> THEN {[e EXCEPT !.ret = "OK"]}
    ELSE UNION { QuestionLoop_noStop(x, Tail(qs), msg, data, client, D,
                                     upstreamValid)
                    : x \in UNION { ForwardOutcomes(y, data, client, upstreamValid)
                                      : y \in IF search(Head(qs).name, D)
                                              THEN BlockedOutcomes(e, msg, Head(qs), client)
                                              ELSE {e} } }

\* the loop over the questions (steps 3 to 7) and the final return
RECURSIVE QuestionLoop(_, _, _, _, _, _, _)
QuestionLoop(e, qs, msg, data, client, D, upstreamValid) ==
    IF qs = <<>> THEN {[e EXCEPT !.ret = "OK"]}
    ELSE IF search(Head(qs).name, D)
    THEN BlockedOutcomes(e, msg, Head(qs), client)
    ELSE UNION { QuestionLoop(x, Tail(qs), msg, data, client, D, upstreamValid)
                    : x \in ForwardOutcomes(e, data, client, upstreamValid) }

\* what recvfrom on the listener socket may return
Received(data, client) == [status |-> "data", data |-> data, client |-> client]

ReceiveFailed == [status |-> "error", data |-> <<>>, client |-> "none"]

NothingReceived == [status |-> "none", data |-> <<>>, client |-> "none"]

\* the first client sends any of the datagrams, the second one those with
\* the transaction id ID2
Receptions ==
    {ReceiveFailed}
    \cup {Received(d, "10.0.0.1") : d \in Datagrams}
    \cup {Received(d, "10.0.0.2") : d \in {x \in Datagrams : IdOf(x) = ID2}}

\* handleQuery as it would be if a datagram that fails to parse were
\* forwarded all the same
HandleParsed_forwardsUnparsed(e, result, r, D, upstreamValid) ==
    IF result.err # "OK"
    THEN {[x EXCEPT !.ret = result.err]
             : x \in ForwardOutcomes(e, r.data, r.client, upstreamValid)}
    ELSE QuestionLoop(e, result.msg.questions, result.msg, r.data, r.client,
                      D, upstreamValid)

\* handleQuery after the call of parse, whose result is result
HandleParsed(e, result, r, D, upstreamValid) ==
    IF result.err # "OK" THEN {[e EXCEPT !.ret = result.err]}
    ELSE QuestionLoop(e, result.msg.questions, result.msg, r.data, r.client,
                      D, upstreamValid)

\* handleQuery from recvfrom to the call of parse
HandleOutcomes(e, r, D, upstreamValid) ==
    IF r.status = "error"
    THEN {[e EXCEPT !.lastError = "WSAECONNRESET", !.ret = "SERVER_RECV_FAIL"]}
    ELSE IF Len(r.data) < MIN_DATAGRAM
    THEN {[e EXCEPT !.ret = "PARSE_TOO_SHORT"]}
    ELSE HandleParsed(e, ParseOf[r.data], r, D, upstreamValid)

(***************************************************************************)
(* The operations of the listener as actions.                              *)
(***************************************************************************)
Init ==
    /\ socket_ = FALSE
    /\ upstream_ = FALSE
    /\ blocklist_ = {}
    /\ lastError = "NONE"
    /\ pc = "constructed"
    /\ op = "none"
    /\ ret = "OK"
    /\ rx = NothingReceived
    /\ calls = <<>>
    /\ upRx = <<>>
    /\ upPending = {}
    /\ upQueue = <<>>
    /\ domain = <<>>
    /\ found = FALSE
    /\ fwdRet = "NONE"
    /\ arg = <<>>
    /\ res = <<>>

\* the lines of the files up to the first one that cannot be opened
RECURSIVE LoadedLines(_)
LoadedLines(files) ==
    IF files = <<>> \/ ~FileOpens(Head(files)) THEN {}
    ELSE {ToLower(FileLines(Head(files))[i]) : i \in 1..Len(FileLines(Head(files)))}
         \cup LoadedLines(Tail(files))

FileLists == UNION {[1..n -> FileNames] : n \in 0..MaxFiles}

loadBlocklist(files) ==
    /\ pc = "constructed"
    /\ blocklist_' = blocklist_ \cup LoadedLines(files)
    /\ op' = "loadBlocklist"
    /\ ret' = IF \E i \in 1..Len(files) : ~FileOpens(files[i])
              THEN "BLOCKER_FILE_NOT_FOUND" ELSE "OK"
    /\ UNCHANGED <<socket_, upstream_, lastError, pc, rx, calls, upRx,
                   upPending, upQueue, domain, found, fwdRet, arg, res>>

\* init(cfg): ipOk and upIpOk say whether cfg.serverIp and cfg.upstreamIp
\* are IPv4 literals; the other arguments are the results of WSAStartup,
\* the two socket() calls and bind()
init(ipOk, upIpOk, wsaOk, sockOk, bindOk, upSockOk) ==
    /\ pc = "constructed"
    /\ op' = "init"
    /\ IF ~wsaOk
       THEN /\ ret' = "SERVER_SOCKET_FAIL"
            /\ UNCHANGED <<socket_, upstream_, lastError>>
       ELSE IF ~sockOk
       THEN /\ ret' = "SERVER_SOCKET_FAIL"
            /\ socket_' = FALSE /\ upstream_' = FALSE
            /\ lastError' = "WSAOTHER"
       ELSE IF ~ipOk
       THEN /\ ret' = "INVALID_IP"
            /\ socket_' = FALSE /\ upstream_' = FALSE
            /\ UNCHANGED lastError
       ELSE IF ~bindOk
       THEN /\ ret' = "SERVER_BIND_FAIL"
            /\ socket_' = FALSE /\ upstream_' = FALSE
            /\ lastError' = "WSAOTHER"
       ELSE IF ~upSockOk
       THEN /\ ret' = "SERVER_SOCKET_FAIL"
            /\ socket_' = FALSE /\ upstream_' = FALSE
            /\ lastError' = "WSAOTHER"
       ELSE IF ~upIpOk
       THEN /\ ret' = "INVALID_IP"
            /\ socket_' = FALSE /\ upstream_' = FALSE
            /\ UNCHANGED lastError
       ELSE /\ ret' = "OK"
            /\ socket_' = TRUE /\ upstream_' = TRUE
            /\ UNCHANGED lastError
    /\ UNCHANGED <<blocklist_, pc, rx, calls, upRx, upPending, upQueue,
                   domain, found, fwdRet, arg, res>>

\* run as it would be if it returned whatever the state of the socket
run_returns ==
    /\ pc = "constructed"
    /\ op' = "run"
    /\ pc' = "returned" /\ ret' = "SERVER_NOT_RUNNING"
    /\ UNCHANGED <<socket_, upstream_, blocklist_, lastError, rx, calls, upRx,
                   upPending, upQueue, domain, found, fwdRet, arg, res>>

\* run(): returns at once when the listener socket is invalid, otherwise
\* enters the loop whose iterations are the handleQuery actions
run ==
    /\ pc = "constructed"
    /\ op' = "run"
    /\ IF ~socket_
       THEN pc' = "returned" /\ ret' = "SERVER_NOT_RUNNING"
       ELSE pc' = "running" /\ ret' = "OK"
    /\ UNCHANGED <<socket_, upstream_, blocklist_, lastError, rx, calls, upRx,
                   upPending, upQueue, domain, found, fwdRet, arg, res>>

\* one iteration of the loop of run: handleQuery receives r
handleQuery(r) ==
    /\ pc = "running"
    /\ \E o \in HandleOutcomes([lastError |-> lastError, upPending |-> upPending,
                                upQueue |-> upQueue, calls |-> <<>>,
                                upRx |-> <<>>, ret |-> "OK",
                                fwd |-> "NONE"],
                               r, blocklist_, upstream_) :
          /\ lastError' = o.lastError
          /\ upPending' = o.upPending
          /\ upQueue' = o.upQueue
          /\ calls' = o.calls
          /\ upRx' = o.upRx
          /\ ret' = o.ret
          /\ fwdRet' = o.fwd
    /\ rx' = r
    /\ op' = "handleQuery"
    /\ UNCHANGED <<socket_, upstream_, blocklist_, pc, domain, found, arg, res>>

\* the resolver's answer to a pending query reaches the upstream socket
\* while no recvfrom is waiting for it; it is lost when the buffer is full
UpstreamAnswers ==
    /\ pc = "running"
    /\ \E i \in upPending :
          /\ upPending' = upPending \ {i}
          /\ \/ /\ Len(upQueue) < MaxQueue
                /\ \E a \in UpstreamReplies(i) : upQueue' = Append(upQueue, a)
             \/ /\ Len(upQueue) >= MaxQueue
                /\ UNCHANGED upQueue
    /\ UNCHANGED <<socket_, upstream_, blocklist_, lastError, pc, op, ret, rx,
                   calls, upRx, domain, found, fwdRet, arg, res>>

Next ==
    \/ \E files \in FileLists : loadBlocklist(files)
    \/ \E ipOk, upIpOk, wsaOk, sockOk, bindOk, upSockOk \in BOOLEAN :
          init(ipOk, upIpOk, wsaOk, sockOk, bindOk, upSockOk)
    \/ run
    \/ \E r \in Receptions : handleQuery(r)
    \/ UpstreamAnswers

Spec == Init /\ [][Next]_vars

(***************************************************************************)
(* Direct application of the matcher to names over a small alphabet.       *)
(***************************************************************************)
\* longest name over the alphabet that search is applied to
MaxNameLen == 4

\* 'a', 'A', '.', '/' and ':'
Alphabet == {97, 65, 46, 47, 58}

ads_com == <<97, 100, 115, 46, 99, 111, 109>>
sub_ads_com == <<115, 117, 98, 46, 97, 100, 115, 46, 99, 111, 109>>
badads_com == <<98, 97, 100, 97, 100, 115, 46, 99, 111, 109>>

\* longer strings with a scheme, a path, a query or a fragment:
\* "A://a.A/a", "a://A://a", "://://", "a.A?a#:" and "a#://A"
UrlNames ==
    { <<65, 58, 47, 47, 97, 46, 65, 47, 97>>,
      <<97, 58, 47, 47, 65, 58, 47, 47, 97>>,
      <<58, 47, 47, 58, 47, 47>>,
      <<97, 46, 65, 63, 97, 35, 58>>,
      <<97, 35, 58, 47, 47, 65>> }

SearchNames ==
    UNION {[1..n -> Alphabet] : n \in 0..MaxNameLen}
    \cup {ads_com, sub_ads_com, badads_com} \cup UrlNames

\* the lines a blocklist may hold: "a", "a.a", "a/", "ads.com" and ""
DeniedPool == {<<97>>, <<97, 46, 97>>, <<97, 47>>, ads_com, <<>>}

\* a constructed listener whose blocklist holds any lines of the pool
InitSearch ==
    /\ socket_ = FALSE
    /\ upstream_ = FALSE
    /\ blocklist_ \in SUBSET DeniedPool
    /\ lastError = "NONE"
    /\ pc = "constructed"
    /\ op = "none"
    /\ ret = "OK"
    /\ rx = NothingReceived
    /\ calls = <<>>
    /\ upRx = <<>>
    /\ upPending = {}
    /\ upQueue = <<>>
    /\ domain = <<>>
    /\ found = FALSE
    /\ fwdRet = "NONE"
    /\ arg = <<>>
    /\ res = <<>>

\* search(n), applied once
applySearch(n) ==
    /\ op = "none"
    /\ domain' = n
    /\ found' = search(n, blocklist_)
    /\ op' = "search"
    /\ UNCHANGED <<socket_, upstream_, blocklist_, lastError, pc, ret, rx,
                   calls, upRx, upPending, upQueue, fwdRet, arg, res>>

NextSearch == \E n \in SearchNames : applySearch(n)

SpecSearch == InitSearch /\ [][NextSearch]_vars

(***************************************************************************)
(* Direct application of the codec to byte strings and messages.  Each     *)
(* behaviour applies one function once; arg is its argument, res what it   *)
(* returned.  A byte string is the first len bytes of a zeroed buffer, as  *)
(* buf is in handleQuery; the field read of a result is one more than the  *)
(* highest index the function read.                                        *)
(***************************************************************************)
\* longest byte string enumerated exhaustively as a name buffer
MaxBufLen == 4
\* most RDATA bytes that follow the fixed fields of an enumerated record
MaxRdata == 3

\* the bytes the name buffers are made of: the terminator, the label
\* lengths 1 and 2, '.', 'a', a length of the reserved range (64) and the
\* pointer bytes 0xC0 and 0xC1
NameBytes == {0, 1, 2, 46, 97, 64, 192, 193}

\* a label of 63 bytes 'a' and one of 61
Label63 == <<63>> \o [i \in 1..63 |-> 97]

Label61 == <<61>> \o [i \in 1..61 |-> 97]

\* names whose dotted form has 255, 253 and 257 characters
LongNames ==
    { Label63 \o Label63 \o Label63 \o Label63 \o <<0>>,
      Label63 \o Label63 \o Label63 \o Label61 \o <<0>>,
      Label63 \o Label63 \o Label63 \o Label63 \o <<1, 97, 0>> }

\* the root name at index 0 followed by k pointers, each to the one before
\* it (the first to the root name): read from index 2k - 1, the name is
\* reached through k pointers
PointerChain(k) ==
    <<0>> \o [i \in 1..(2 * k) |->
                IF i % 2 = 1 THEN 192 ELSE IF i = 2 THEN 0 ELSE i - 3]

PointerChains == { PointerChain(k) : k \in {19, 20, 21, 22} }

\* "a" at index 0, then at index 3 the label "a" and a pointer to index 0,
\* then at index 7 a pointer to index 3: read from index 7 the name is "a.a"
CompressedNames == { <<1, 97, 0, 1, 97, 192, 0, 192, 3>> }

NameBuffers ==
    UNION {[1..n -> NameBytes] : n \in 0..MaxBufLen}
    \cup LongNames \cup PointerChains \cup CompressedNames

\* a record: owner name, TYPE A, CLASS IN, TTL 60, RDLENGTH rdl, then k bytes
RecordBytes(wname, rdl, k) ==
    wname \o <<0, 1, 0, 1, 0, 0, 0, 60>> \o Write16(rdl) \o [i \in 1..k |-> 255]

\* records with every RDLENGTH up to eleven more than the bytes that follow,
\* and their truncations
RecordBuffers ==
    LET whole == { RecordBytes(w, rdl, k) :
                     w \in {<<0>>, <<1, 97, 0>>, <<192, 0>>},
                     rdl \in 0..(MaxRdata + 11), k \in 0..MaxRdata }
    IN  whole \cup { SubSeq(RecordBytes(<<1, 97, 0>>, 0, 0), 1, n) : n \in 0..12 }

\* the catalogue of datagrams and every truncation of the valid ones
ParseBuffers ==
    Datagrams \cup UNION { {SubSeq(d, 1, n) : n \in 0..Len(d)} : d \in ValidDatagrams }

\* 12-byte headers: every flags word, and some words with every choice of
\* id and section counts
HeaderBuffers ==
    { Hdr(ID1, f, 1, 0, 0, 0) : f \in 0..65535 }
    \cup { Hdr(i, f, c[1], c[2], c[3], c[4]) :
             i \in {0, ID2, 65535},
             f \in {0, 256, 33152, 34176, 64, 6144, 1024, 48},
             c \in { <<0, 0, 0, 0>>, <<1, 0, 0, 0>>, <<2, 0, 0, 0>>,
                     <<1, 500, 500, 500>>, <<1, 501, 0, 0>>,
                     <<1, 258, 3, 65535>> } }

\* Name::decode(data, len, offset), applied once
decodeName(data, offset) ==
    /\ op = "none"
    /\ arg' = [data |-> data, offset |-> offset]
    /\ res' = NameDecode(data, offset)
    /\ op' = "Name::decode"
    /\ UNCHANGED <<socket_, upstream_, blocklist_, lastError, pc, ret, rx,
                   calls, upRx, upPending, upQueue, domain, found, fwdRet>>

\* ResourceRecord::decode(data, len, offset), applied once
decodeRecord(data, offset) ==
    /\ op = "none"
    /\ arg' = [data |-> data, offset |-> offset]
    /\ res' = ResourceRecordDecode(data, offset)
    /\ op' = "ResourceRecord::decode"
    /\ UNCHANGED <<socket_, upstream_, blocklist_, lastError, pc, ret, rx,
                   calls, upRx, upPending, upQueue, domain, found, fwdRet>>

\* MessageParser::parse(data, len), applied once
parseBytes(data) ==
    /\ op = "none"
    /\ arg' = [data |-> data]
    /\ res' = parse(data)
    /\ op' = "MessageParser::parse"
    /\ UNCHANGED <<socket_, upstream_, blocklist_, lastError, pc, ret, rx,
                   calls, upRx, upPending, upQueue, domain, found, fwdRet>>

\* Header::decode(data, 12) and, when it succeeds, Header::encode of the
\* header it returned
HeaderRoundTrip(hdr) ==
    [err |-> hdr.err, header |-> hdr.header,
     bytes |-> IF hdr.err = "OK" THEN HeaderEncode(hdr.header) ELSE <<>>]

recodeHeader(data) ==
    /\ op = "none"
    /\ arg' = [data |-> data]
    /\ res' = HeaderRoundTrip(HeaderDecode(data))
    /\ op' = "Header::decode"
    /\ UNCHANGED <<socket_, upstream_, blocklist_, lastError, pc, ret, rx,
                   calls, upRx, upPending, upQueue, domain, found, fwdRet>>

\* headers with every combination of the seven flags, with opcodes and
\* rcodes inside and outside their 4-bit fields (both are uint8_t enums)
Headers ==
    { [NoHeader EXCEPT !.id = ID1, !.qdcount = 1,
                       !.qr = b[1], !.aa = b[2], !.tc = b[3], !.rd = b[4],
                       !.ra = b[5], !.ad = b[6], !.cd = b[7],
                       !.opcode = o, !.rcode = r] :
        b \in [1..7 -> BOOLEAN], o \in {0, 2, 6, 15, 24},
        r \in {0, 3, 15, 16, 23, 64, 255} }

\* Header::encode(), applied once
encodeHeader(h) ==
    /\ op = "none"
    /\ arg' = [header |-> h]
    /\ res' = [err |-> "OK", bytes |-> HeaderEncode(h)]
    /\ op' = "Header::encode"
    /\ UNCHANGED <<socket_, upstream_, blocklist_, lastError, pc, ret, rx,
                   calls, upRx, upPending, upQueue, domain, found, fwdRet>>

\* the messages the listener holds after parse
ParsedMessages ==
    { r.msg : r \in { x \in {ParseOf[d] : d \in ValidDatagrams} : x.err = "OK" } }

\* a 64-byte label, which Name::encode refuses
Name64 == [i \in 1..64 |-> 97]

\* an A record owned by name, with 4 bytes of RDATA
ARecord(name) ==
    [name |-> name, type |-> 1, rclass |-> 1, ttl |-> 60, rdlength |-> 4,
     rdata |-> <<1, 2, 3, 4>>]

\* records owned by "ad.io", "x.ad.io", the root name, "s.ad.io" and the
\* root name again: names that share suffixes with each other and with
\* the question names
SuffixAnswers == << ARecord(<<97, 100, 46, 105, 111>>) >>

SuffixAuthority == << ARecord(<<120, 46, 97, 100, 46, 105, 111>>) >>

SuffixAdditional ==
    << ARecord(<<>>), ARecord(<<115, 46, 97, 100, 46, 105, 111>>),
       ARecord(<<>>) >>

\* parsed messages, the blocked responses handleQuery makes of them, and
\* messages changed through the setters: another RCODE (NXDOMAIN, BADVERS),
\* the question given twice, a question name with a label too long to
\* encode, records whose names share suffixes
MessagesOf(parsed) ==
    parsed
    \cup { BlockedMessage(m, m.questions[1]) :
             m \in {x \in parsed : x.questions # <<>>} }
    \cup { [m EXCEPT !.header.rcode = r] : m \in parsed, r \in {3, 16} }
    \cup { [m EXCEPT !.questions = @ \o @] : m \in parsed }
    \cup { [m EXCEPT !.questions =
                      << [name |-> Name64, qtype |-> 1, qclass |-> 1] >>]
             : m \in parsed }
    \cup { [m EXCEPT !.header.qr = TRUE, !.answers = SuffixAnswers,
                      !.authority = SuffixAuthority,
                      !.additional = SuffixAdditional]
             : m \in {x \in parsed : x.questions # <<>>} }

Messages == MessagesOf(ParsedMessages)

\* MessageParser::encode(m) and, when it succeeds, MessageParser::parse of
\* the bytes it returned
MessageRoundTrip(encoded) ==
    [err |-> encoded.err, bytes |-> encoded.bytes,
     back |-> IF encoded.err = "OK" THEN parse(encoded.bytes)
              ELSE ParseFailed("NONE", 0)]

recodeMessage(m) ==
    /\ op = "none"
    /\ arg' = [msg |-> m]
    /\ res' = MessageRoundTrip(encode(m))
    /\ op' = "MessageParser::encode"
    /\ UNCHANGED <<socket_, upstream_, blocklist_, lastError, pc, ret, rx,
                   calls, upRx, upPending, upQueue, domain, found, fwdRet>>

\* one function is applied, once
NextCodec ==
    \/ op = "none" /\ \E data \in NameBuffers : \E offset \in 0..Len(data) :
          decodeName(data, offset)
    \/ op = "none" /\ \E data \in RecordBuffers : decodeRecord(data, 0)
    \/ op = "none" /\ \E data \in ParseBuffers : parseBytes(data)
    \/ op = "none" /\ \E data \in HeaderBuffers : recodeHeader(data)
    \/ op = "none" /\ \E m \in Messages : recodeMessage(m)
    \/ op = "none" /\ \E h \in Headers : encodeHeader(h)

SpecCodec == Init /\ [][NextCodec]_vars

(***************************************************************************)
(* Properties.  They speak of the state right after a handleQuery: rx is   *)
(* what it received, calls the sendto calls it made, ret what it returned. *)
(***************************************************************************)
\* handleQuery ran and recvfrom gave it a datagram
Handled == op = "handleQuery" /\ rx.status = "data"

\* ... which was long enough and parsed
Accepted ==
    Handled /\ Len(rx.data) >= MIN_DATAGRAM /\ ParseOf[rx.data].err = "OK"

RxMsg == ParseOf[rx.data].msg

RxQuestion == RxMsg.questions[1]

\* ... and whose question name matches the denylist
Blocked ==
    Accepted /\ RxMsg.questions # <<>> /\ search(RxQuestion.name, blocklist_)

\* ... or does not match it
NotBlocked ==
    Accepted /\ RxMsg.questions # <<>> /\ ~search(RxQuestion.name, blocklist_)

ClientCalls == SelectSeq(calls, LAMBDA c : c.sock = "listener")

UpstreamCalls == SelectSeq(calls, LAMBDA c : c.sock = "upstream")

Elements(seq) == {seq[i] : i \in 1..Len(seq)}

\* the flags word of a datagram
FlagsOf(data) == Read16(data, 2)

SuffixInSet(n, D) ==
    \E i \in 0..Len(n) :
        /\ i = 0 \/ n[i] = 46
        /\ SubSeq(n, i + 1, Len(n)) \in D

\* C2: for a non-empty denied set D and a name n, search(n) is true exactly
\* when the normalized n, or one of its suffixes that start right after a
\* '.', is a member of D.
C2_SearchIsSuffixMatch ==
    (op = "search" /\ blocklist_ # {}) =>
        (found <=> SuffixInSet(Normalize(domain), blocklist_))

C2_Witness ==
    /\ op = "search"
    /\ blocklist_ = {ads_com}
    /\ domain = sub_ads_com
    /\ found

\* C3: the response to a blocked query has NSCOUNT = 0 and ARCOUNT = 0 and
\* carries no authority and no additional record.
C3_BlockedResponseHasNoAuthorityOrAdditional ==
    Blocked =>
        \A c \in Elements(ClientCalls) :
            /\ Read16(c.bytes, 8) = 0
            /\ Read16(c.bytes, 10) = 0
            /\ parse(c.bytes).msg.authority = <<>>
            /\ parse(c.bytes).msg.additional = <<>>

\* C4: the header of the response to a blocked query has QR = 1, RA = 1,
\* AA = 0 and RCODE = NOERROR.
C4_BlockedResponseFlags ==
    Blocked =>
        \A c \in Elements(ClientCalls) :
            /\ Bit(FlagsOf(c.bytes), 15) = 1
            /\ Bit(FlagsOf(c.bytes), 7) = 1
            /\ Bit(FlagsOf(c.bytes), 10) = 0
            /\ FlagsOf(c.bytes) % 16 = 0

C6_BlockedHttpsHasNoAnswer ==
    (Blocked /\ RxQuestion.qtype = QTYPE_HTTPS) =>
        \A c \in Elements(ClientCalls) :
            /\ Read16(c.bytes, 6) = 0
            /\ parse(c.bytes).msg.answers = <<>>

\* C7: the response to a blocked query has the transaction id, the RD bit
\* and the question (name, QTYPE, QCLASS) of the query received.
C7_BlockedResponseEchoesQuery ==
    Blocked =>
        \A c \in Elements(ClientCalls) :
            /\ IdOf(c.bytes) = IdOf(rx.data)
            /\ Bit(FlagsOf(c.bytes), 8) = Bit(FlagsOf(rx.data), 8)
            /\ parse(c.bytes).msg.questions = RxMsg.questions

\* C8: for a parsed query whose name does not match the denylist, one
\* datagram is sent upstream and it is the received bytes; the datagrams
\* then received on the upstream socket are the ones sent to the address
\* the query came from, byte for byte.
C8_ForwardIsVerbatim ==
    NotBlocked =>
        /\ Len(UpstreamCalls) = 1
        /\ UpstreamCalls[1].bytes = rx.data
        /\ UpstreamCalls[1].to = UpstreamAddr
        /\ calls[1].sock = "upstream"
        /\ Len(ClientCalls) = Len(upRx)
        /\ \A i \in 1..Len(ClientCalls) :
              /\ ClientCalls[i].bytes = upRx[i]
              /\ ClientCalls[i].to = rx.client

C8_Witness ==
    /\ NotBlocked
    /\ Len(calls) = 2
    /\ calls[1].ok /\ calls[2].ok
    /\ calls[2].bytes \in UpstreamReplies(IdOf(rx.data))

\* C9: every datagram handleQuery sends to a client carries the transaction
\* id of the query it is handling.
C9_RelayedIdIsQueryId ==
    Handled =>
        \A c \in Elements(ClientCalls) : IdOf(c.bytes) = IdOf(rx.data)

ParseErrors ==
    {"PARSE_TOO_SHORT", "PARSE_BAD_OPCODE", "PARSE_BAD_LABEL",
     "PARSE_NAME_TOO_LONG", "PARSE_PTR_LOOP", "PARSE_PTR_OOB",
     "PARSE_TRUNCATED", "PARSE_BAD_QTYPE", "PARSE_BAD_QCLASS",
     "PARSE_BAD_QDCOUNT"}

\* C10: when the received datagram is shorter than 13 bytes or fails to
\* parse, handleQuery makes no sendto call, receives nothing from the
\* upstream, and returns the parse error (PARSE_TOO_SHORT for a short one).
C10_UnparsedIsDropped ==
    (Handled /\ ~Accepted) =>
        /\ calls = <<>>
        /\ upRx = <<>>
        /\ ret \in ParseErrors
        /\ ret = IF Len(rx.data) < MIN_DATAGRAM THEN "PARSE_TOO_SHORT"
                 ELSE parse(rx.data).err

C10_Witness ==
    /\ Handled
    /\ ret = "PARSE_PTR_LOOP"
    /\ Len(rx.data) >= MIN_DATAGRAM
    /\ calls = <<>>

\* forward was called, its sendto reached the upstream socket and its
\* recvfrom on the upstream socket failed
UpstreamReceiveFailed ==
    /\ Handled
    /\ Len(UpstreamCalls) = 1
    /\ UpstreamCalls[1].ok
    /\ upRx = <<>>

\* C11: when recvfrom on the upstream socket times out, forward returns
\* UPSTREAM_TIMEOUT; when it fails otherwise, forward returns
\* UPSTREAM_UNREACHABLE; in both cases nothing is sent to the client.
C11_UpstreamReceiveError ==
    UpstreamReceiveFailed =>
        /\ ClientCalls = <<>>
        /\ fwdRet = IF lastError = "WSAETIMEDOUT" THEN "UPSTREAM_TIMEOUT"
                    ELSE "UPSTREAM_UNREACHABLE"

C11_Witness ==
    /\ UpstreamReceiveFailed
    /\ lastError = "WSAETIMEDOUT"
    /\ fwdRet = "UPSTREAM_TIMEOUT"
    /\ calls = << Call("upstream", UpstreamAddr, rx.data, TRUE) >>

\* the values handleQuery returns for a datagram it could not serve
HandleErrors ==
    ParseErrors \cup {"SERVER_RECV_FAIL", "SERVER_SEND_FAIL",
                      "ENCODE_NAME_TOO_LONG", "ENCODE_LABEL_TOO_LONG",
                      "ENCODE_OVERFLOW"}

\* C12: run returns only from a listener whose socket is invalid, and then
\* with SERVER_NOT_RUNNING; with a valid socket it enters the loop, no
\* handleQuery (whatever it returns, whatever forward returned) ends the
\* loop, and in the loop the next handleQuery can always be taken.
C12_RunLoopsForever ==
    /\ [][ /\ pc = "running" => pc' = "running"
           /\ pc' = "returned" =>
                  (op' = "run" /\ ~socket_ /\ ret' = "SERVER_NOT_RUNNING")
           /\ (op' = "run" /\ pc = "constructed" /\ socket_) => pc' = "running"
         ]_vars
    /\ [](pc = "running" => ENABLED (\E r \in Receptions : handleQuery(r)))

C12_Witness ==
    /\ pc = "running"
    /\ Handled
    /\ ret \in HandleErrors
    /\ fwdRet = "NONE"
    /\ upQueue # <<>>

\* C13: after an init that returned an error the listener socket is
\* invalid, and a run that follows returns SERVER_NOT_RUNNING, whatever
\* earlier calls of init did.
C13_FailedInitLeavesUnbound ==
    /\ []((op = "init" /\ ret # "OK") => ~socket_)
    /\ [][(op = "init" /\ ret # "OK" /\ op' = "run")
             => (ret' = "SERVER_NOT_RUNNING" /\ pc' = "returned")]_vars

\* C14: MessageParser::parse, on every byte string, succeeds or returns one
\* of the parse errors, and reads no byte at an index at or past the length
\* of the byte string (res.read is one more than the highest index read).
C14_ParseReadsWithinLength ==
    (op = "MessageParser::parse") =>
        /\ res.err \in {"OK"} \cup ParseErrors
        /\ res.read <= Len(arg.data)

\* the name of the record handed to ResourceRecord::decode, decoded alone
RecordName == NameDecode(arg.data, arg.offset)

\* C15: ResourceRecord::decode returns PARSE_TRUNCATED whenever the name and
\* the 10 fixed bytes fit and RDLENGTH exceeds the bytes that remain after
\* them; when it succeeds its cursor is at most the datagram length.
C15_RdataWithinDatagram ==
    (op = "ResourceRecord::decode") =>
        /\ ( /\ RecordName.err = "OK"
             /\ RecordName.offset + 10 <= Len(arg.data)
             /\ Read16(arg.data, RecordName.offset + 8)
                    > Len(arg.data) - (RecordName.offset + 10) )
           => res.err = "PARSE_TRUNCATED"
        /\ res.err = "OK" => res.offset <= Len(arg.data)

\* the name at arg.offset is a compression pointer to arg.offset
SelfPointer ==
    /\ arg.offset + 1 < Len(arg.data)
    /\ ByteAt(arg.data, arg.offset) >= COMPRESSION_MASK
    /\ (ByteAt(arg.data, arg.offset) % 64) * 256
          + ByteAt(arg.data, arg.offset + 1) = arg.offset

NameErrors ==
    {"PARSE_TRUNCATED", "PARSE_PTR_OOB", "PARSE_PTR_LOOP", "PARSE_BAD_LABEL",
     "PARSE_NAME_TOO_LONG"}

\* C16: Name::decode returns on every buffer and start offset, having
\* followed at most 21 pointers; a name that is a pointer to itself gives
\* PARSE_PTR_LOOP; a name is accepted only after at most 20 pointers.
C16_PointerHopsBounded ==
    (op = "Name::decode") =>
        /\ res.err \in {"OK"} \cup NameErrors
        /\ res.hops <= 21
        /\ SelfPointer => res.err = "PARSE_PTR_LOOP"
        /\ res.err = "OK" => res.hops <= 20

\* a self-pointing name was refused at its 21st pointer
C16_Witness ==
    /\ op = "Name::decode"
    /\ SelfPointer
    /\ res.err = "PARSE_PTR_LOOP"
    /\ res.hops = 21

\* bytes of the wire form of a name whose labels give the dotted string
\* name: one length byte per label, the label bytes and the terminating
\* zero (the dots of the string stand for all length bytes but the first)
WireLength(name) == IF name = <<>> THEN 1 ELSE Len(name) + 2

\* the dotted string has an empty label: a leading, trailing or doubled '.'
HasEmptyLabel(name) ==
    /\ name # <<>>
    /\ \/ name[1] = 46
       \/ name[Len(name)] = 46
       \/ \E i \in 1..(Len(name) - 1) : name[i] = 46 /\ name[i + 1] = 46

\* no more than 63 characters of the dotted string stand between two dots
LabelsWithinLimit(name) ==
    \A i \in 1..(Len(name) - MAX_LABEL_LEN) :
        \E j \in i..(i + MAX_LABEL_LEN) : name[j] = 46

\* C17: a name that Name::decode accepts has a wire form of at most 255
\* bytes, no label longer than 63 bytes, and a dotted string without an
\* empty label.
C17_AcceptedNameWellFormed ==
    (op = "Name::decode" /\ res.err = "OK") =>
        /\ WireLength(res.name) <= 255
        /\ LabelsWithinLimit(res.name)
        /\ ~HasEmptyLabel(res.name)

\* C18: the empty string as a member of the denylist (an empty line of a
\* blocklist file) makes no received query match: a query that handleQuery
\* treats as blocked also matches the denylist without the empty string.
C18_EmptyLineNeverMatches ==
    Blocked => search(RxQuestion.name, blocklist_ \ {<<>>})

\* C19: for every 12-byte header that Header::decode accepts, Header::encode
\* of the decoded header returns the same 12 bytes.
C19_HeaderRoundTrip ==
    (op = "Header::decode" /\ Len(arg.data) = HEADER_LEN /\ res.err = "OK")
        => res.bytes = arg.data

\* an accepted header with every flag set, opcode 6 and rcode 15 was
\* encoded again
C19_Witness ==
    /\ op = "Header::decode"
    /\ res.err = "OK"
    /\ arg.data = Hdr(ID1, 47039, 1, 0, 0, 0)
    /\ res.header.ad /\ res.header.cd /\ res.header.rcode = 15
    /\ Len(res.bytes) = HEADER_LEN

\* id and flags of two headers agree
SameHeader(a, b) ==
    /\ a.id = b.id /\ a.qr = b.qr /\ a.opcode = b.opcode /\ a.aa = b.aa
    /\ a.tc = b.tc /\ a.rd = b.rd /\ a.ra = b.ra /\ a.ad = b.ad
    /\ a.cd = b.cd /\ a.rcode = b.rcode

\* two sections hold the same records in the same order
SameRecords(a, b) ==
    /\ Len(a) = Len(b)
    /\ \A i \in 1..Len(a) :
          /\ a[i].name = b[i].name /\ a[i].type = b[i].type
          /\ a[i].rclass = b[i].rclass /\ a[i].ttl = b[i].ttl
          /\ a[i].rdata = b[i].rdata

SameMessage(a, b) ==
    /\ SameHeader(a.header, b.header)
    /\ a.questions = b.questions
    /\ SameRecords(a.answers, b.answers)
    /\ SameRecords(a.authority, b.authority)
    /\ SameRecords(a.additional, b.additional)

\* C20: for every message that MessageParser::encode encodes, parse of the
\* encoded bytes succeeds and gives a message with the same id and flags,
\* the same questions and the same records (name, type, class, TTL and
\* RDATA) in the same order.
C20_MessageRoundTrip ==
    (op = "MessageParser::encode" /\ res.err = "OK") =>
        /\ res.back.err = "OK"
        /\ SameMessage(arg.msg, res.back.msg)

\* the four counts of a header are the lengths of the four sections
CountsAreLengths(h, m) ==
    /\ h.qdcount = Len(m.questions)
    /\ h.ancount = Len(m.answers)
    /\ h.nscount = Len(m.authority)
    /\ h.arcount = Len(m.additional)

\* C21: the counts MessageParser::encode writes into the header are the
\* lengths of the message's four sequences, whatever counts the message's
\* header holds; in the message parse makes of the encoded bytes, the
\* header counts are the lengths of the four sections.
C21_CountsFromSequences ==
    (op = "MessageParser::encode" /\ res.err = "OK") =>
        /\ Read16(res.bytes, 4) = Len(arg.msg.questions)
        /\ Read16(res.bytes, 6) = Len(arg.msg.answers)
        /\ Read16(res.bytes, 8) = Len(arg.msg.authority)
        /\ Read16(res.bytes, 10) = Len(arg.msg.additional)
        /\ res.back.err = "OK" =>
               CountsAreLengths(res.back.msg.header, res.back.msg)

\* a message whose header says no authority record while it holds one was
\* encoded and parsed again
C21_Witness ==
    /\ op = "MessageParser::encode"
    /\ res.err = "OK"
    /\ arg.msg.header.nscount = 0
    /\ Len(arg.msg.authority) = 1
    /\ res.back.err = "OK"
    /\ Len(res.back.msg.authority) = 1

\* the reserved bit Z (0x0040) of the flags word of a datagram
ZBit(data) == Bit(FlagsOf(data), 6)

\* C22: Header::decode refuses a header whose Z bit is set with
\* PARSE_TRUNCATED, so Z is zero in every header it accepts; Z is zero in
\* every header Header::encode writes, whatever the header fields hold, and
\* so in every message MessageParser::encode returns.
C22_ReservedBitZero ==
    /\ (op = "Header::decode" /\ Len(arg.data) >= HEADER_LEN) =>
           /\ ZBit(arg.data) = 1 => res.err = "PARSE_TRUNCATED"
           /\ res.err = "OK" => (ZBit(arg.data) = 0 /\ ZBit(res.bytes) = 0)
    /\ (op = "Header::encode") => ZBit(res.bytes) = 0
    /\ (op = "MessageParser::encode" /\ res.err = "OK") => ZBit(res.bytes) = 0

\* a header with every flag set, opcode 15 and rcode 255 was encoded
C22_Witness ==
    /\ op = "Header::encode"
    /\ arg.header.rcode = 255
    /\ arg.header.opcode = 15
    /\ FlagsOf(res.bytes) = 65471

\* the flags of a 12-byte header pass the tests Header::decode makes before
\* it looks at the counts: Z clear, a known opcode, no AA or RA in a query
FlagsPass(data) ==
    /\ ZBit(data) = 0
    /\ (FlagsOf(data) \div 2048) % 16 \in ValidOpcodes
    /\ Bit(FlagsOf(data), 15) = 1
          \/ (Bit(FlagsOf(data), 7) = 0 /\ Bit(FlagsOf(data), 10) = 0)

\* C23: Header::decode accepts a header with QR=0 only when QDCOUNT is 1;
\* with QDCOUNT 0 or above 1 such a header is refused, with
\* PARSE_BAD_QDCOUNT when its flags pass the earlier tests; so a message
\* parse returns with QR=0 holds exactly one question.
C23_QueryHasOneQuestion ==
    /\ (op = "Header::decode" /\ Len(arg.data) >= HEADER_LEN
           /\ Bit(FlagsOf(arg.data), 15) = 0) =>
           /\ res.err = "OK" => Read16(arg.data, 4) = 1
           /\ (Read16(arg.data, 4) # 1 /\ FlagsPass(arg.data))
                 => res.err = "PARSE_BAD_QDCOUNT"
    /\ (op = "MessageParser::parse" /\ res.err = "OK" /\ ~res.msg.header.qr)
           => (Len(res.msg.questions) = 1 /\ res.msg.header.qdcount = 1)

\* a query header with QDCOUNT 2 and flags 0x0100 was refused
C23_Witness ==
    /\ op = "Header::decode"
    /\ FlagsOf(arg.data) = 256
    /\ Read16(arg.data, 4) = 2
    /\ res.err = "PARSE_BAD_QDCOUNT"

\* C24: the normalisation search applies to its argument (strip through
\* the first "://", cut from the first of '/', '?', ':', '#', lowercase) is
\* idempotent: applied to the normalised string it gives the normalised
\* string.
C24_NormalizeIdempotent ==
    (op = "search") => Normalize(Normalize(domain)) = Normalize(domain)

\* search was applied to "A://a.A/a", which is normalised to "a.a"
C24_Witness ==
    /\ op = "search"
    /\ domain = <<65, 58, 47, 47, 97, 46, 65, 47, 97>>
    /\ Normalize(domain) = <<97, 46, 97>>
    /\ Normalize(Normalize(domain)) = <<97, 46, 97>>

\* C25: when forward, called by handleQuery for a query that is not
\* blocked, returns UPSTREAM_UNREACHABLE, UPSTREAM_TIMEOUT or
\* SERVER_SEND_FAIL, handleQuery returns that error.
C25_ForwardErrorReturned ==
    (Handled /\ fwdRet \in {"UPSTREAM_UNREACHABLE", "UPSTREAM_TIMEOUT",
                             "SERVER_SEND_FAIL"})
        => ret = fwdRet

\* the index of the first byte at or after pos that is not the length byte
\* of a label, skipping whole labels: the terminator or the first pointer
\* of a well-formed name
RECURSIVE SkipLabels(_, _)
SkipLabels(data, pos) ==
    IF pos >= Len(data) THEN pos
    ELSE IF data[pos + 1] = 0 \/ data[pos + 1] > MAX_LABEL_LEN THEN pos
    ELSE SkipLabels(data, pos + 1 + data[pos + 1])

FirstStop == SkipLabels(arg.data, arg.offset)

\* C26: Name::decode leaves the caller's offset one byte past the
\* terminating zero when it accepts a name without a pointer, and two bytes
\* past the first pointer once it has followed one, whatever pointers and
\* labels come after; when it fails before following a pointer the offset
\* is the one it was called with.
C26_OffsetAfterName ==
    (op = "Name::decode") =>
        /\ (res.err = "OK" /\ res.hops = 0) =>
               (ByteAt(arg.data, FirstStop) = 0 /\ res.offset = FirstStop + 1)
        /\ res.hops >= 1 =>
               /\ ByteAt(arg.data, FirstStop) >= COMPRESSION_MASK
               /\ res.offset = FirstStop + 2
        /\ (res.err # "OK" /\ res.hops = 0) => res.offset = arg.offset

\* the name "a.a" was read through two pointers with a label after each
C26_Witness ==
    /\ op = "Name::decode"
    /\ arg.data \in CompressedNames
    /\ arg.offset = 7
    /\ res.err = "OK"
    /\ res.name = <<97, 46, 97>>
    /\ res.hops = 2
    /\ res.offset = 9

\* the names of a message in the order encode writes them, each with the
\* number of bytes written after it
ItemsOf(m) ==
    [i \in 1..Len(m.questions) |-> [name |-> m.questions[i].name, tail |-> 4]]
    \o [i \in 1..Len(m.answers) |->
           [name |-> m.answers[i].name, tail |-> 10 + Len(m.answers[i].rdata)]]
    \o [i \in 1..Len(m.authority) |->
           [name |-> m.authority[i].name,
            tail |-> 10 + Len(m.authority[i].rdata)]]
    \o [i \in 1..Len(m.additional) |->
           [name |-> m.additional[i].name,
            tail |-> 10 + Len(m.additional[i].rdata)]]

\* 0-based positions in a dotted string at which a label starts
LabelStarts(name) == {0} \cup {i \in 1..Len(name) : name[i] = 46}

\* A walk over the names of an encoded datagram.  st.pos is the offset of
\* the next name, st.written the pairs (offset, suffix) of the labels and
\* terminators written so far, st.ptrs the compression pointers met: where
\* each stands, its target, the suffix it stands for, and whether a label
\* of that suffix was written at the target before.
RECURSIVE WalkNames(_, _, _)
WalkNames(bytes, items, st) ==
    IF items = <<>> THEN st
    ELSE LET name == Head(items).name
             stop == SkipLabels(bytes, st.pos)
             k == stop - st.pos
             isPtr == ByteAt(bytes, stop) >= COMPRESSION_MASK
             target == (ByteAt(bytes, stop) % 64) * 256 + ByteAt(bytes, stop + 1)
             suffix == SubSeq(name, k + 1, Len(name))
             labels == { [offset |-> st.pos + j,
                          suffix |-> SubSeq(name, j + 1, Len(name))] :
                           j \in {x \in LabelStarts(name) : x < k} }
             written == st.written \cup labels
                        \cup (IF isPtr THEN {}
                              ELSE {[offset |-> stop, suffix |-> <<>>]})
             ptrs == IF ~isPtr THEN st.ptrs
                     ELSE st.ptrs \cup
                          {[at |-> stop, target |-> target, suffix |-> suffix,
                            known |-> [offset |-> target, suffix |-> suffix]
                                         \in written]}
         IN  WalkNames(bytes, Tail(items),
                       [pos |-> stop + (IF isPtr THEN 2 ELSE 1) + Head(items).tail,
                        written |-> written, ptrs |-> ptrs])

\* the walk over the datagram encode returned for arg.msg
EncodedNames ==
    WalkNames(res.bytes, ItemsOf(arg.msg),
              [pos |-> HEADER_LEN, written |-> {}, ptrs |-> {}])

\* C27: in every datagram MessageParser::encode returns, each compression
\* pointer has a target below 0x4000 that lies before the pointer and is an
\* offset at which the first label of the same suffix was written earlier
\* in the datagram.
C27_PointersReferBack ==
    (op = "MessageParser::encode" /\ res.err = "OK") =>
        /\ EncodedNames.pos = Len(res.bytes)
        /\ \A r \in EncodedNames.ptrs :
              r.target < 16384 /\ r.target < r.at /\ r.known

\* a datagram was encoded in which "x.ad.io" is written as the label "x"
\* and a pointer to the "ad.io" of the question name at offset 14, and the
\* root name as a pointer to an earlier terminator
C27_Witness ==
    /\ op = "MessageParser::encode"
    /\ res.err = "OK"
    /\ \E r \in EncodedNames.ptrs :
          r.target = 14 /\ r.suffix = <<97, 100, 46, 105, 111>> /\ r.at > 40
    /\ \E r \in EncodedNames.ptrs : r.suffix = <<>> /\ r.target >= HEADER_LEN
    /\ Cardinality(EncodedNames.ptrs) >= 5

\* handleQuery called forward, which received a reply from the upstream
\* socket and made the relay sendto to the client
Relayed == Handled /\ fwdRet # "NONE" /\ Len(ClientCalls) = 1

C29_AtMostOneSendEach ==
    Handled =>
        /\ Len(UpstreamCalls) <= 1
        /\ Len(ClientCalls) <= 1
        /\ Accepted => Len(RxMsg.questions) <= 1

\* a query that is not blocked was forwarded with one sendto and the reply
\* was relayed to the client with one sendto
C29_Witness ==
    /\ NotBlocked
    /\ Len(UpstreamCalls) = 1
    /\ Len(ClientCalls) = 1
    /\ ClientCalls[1].ok
    /\ fwdRet = "OK"

\* C30: every name that Name::decode accepts is accepted by Name::encode,
\* which returns neither ENCODE_NAME_TOO_LONG nor ENCODE_LABEL_TOO_LONG for
\* it, so that the question name and the answer name of a blocked response
\* built from a parsed query always encode.
C30_DecodedNameEncodes ==
    (op = "Name::decode" /\ res.err = "OK") =>
        NameEncode(res.name, EmptyTable, 0).err = "OK"

====
